---- MODULE Spec2Model ----
(***************************************************************************)
(* Model of the CloudOps AI Insights service (app/ai-insights/main.py).    *)
(*                                                                         *)
(* Floats are modelled as records: not-a-number, the two infinities, or a  *)
(* finite number held in hundredths ([k |-> "num", h |-> 8525] is 85.25).  *)
(* Numeric strings of the backend are sequences of one-character strings,  *)
(* so that float(...) is a real parse and f"{v:.1f}" a real rounding.      *)
(* JSON values are records [t, v]: t is "absent" (key missing), "null",    *)
(* or "list" with the elements in v.                                       *)
(***************************************************************************)
EXTENDS Integers, Sequences, FiniteSets, TLC

VARIABLES env, pc, route, sent, cpu, mem, disk, last, response

vars == <<env, pc, route, sent, cpu, mem, disk, last, response>>

-----------------------------------------------------------------------------
(* Bounds of the model *)

\* longest `result` list of a backend body
MaxResults == 2

\* longest `values` time series of a result entry
MaxSeries == 2

-----------------------------------------------------------------------------
(* Floats *)

NaN == [k |-> "nan", h |-> 0]

Inf == [k |-> "inf", h |-> 0]

NegInf == [k |-> "ninf", h |-> 0]

Num(h) == [k |-> "num", h |-> h]

\* the marker of an exception leaving an expression
Raised == [k |-> "raise", h |-> 0]

\* v > n for a float v and an integer literal n
Gt(v, n) ==
    CASE v.k = "num" -> v.h > n * 100
      [] v.k = "inf" -> TRUE
      [] OTHER -> FALSE

\* v < n for a float v and an integer literal n
Lt(v, n) ==
    CASE v.k = "num" -> v.h < n * 100
      [] v.k = "ninf" -> TRUE
      [] OTHER -> FALSE

\* a != b on floats: not-a-number differs from everything, itself included
Ne(a, b) == a.k = "nan" \/ b.k = "nan" \/ a # b

-----------------------------------------------------------------------------
(* float(str) *)

Digits == <<"0", "1", "2", "3", "4", "5", "6", "7", "8", "9">>

IsDigit(c) == \E i \in 1..10 : Digits[i] = c

DigitVal(c) == (CHOOSE i \in 1..10 : Digits[i] = c) - 1

RECURSIVE IntOf(_)
IntOf(ds) ==
    IF ds = <<>> THEN 0
    ELSE 10 * IntOf(SubSeq(ds, 1, Len(ds) - 1)) + DigitVal(ds[Len(ds)])

AllDigits(ds) == \A i \in 1..Len(ds) : IsDigit(ds[i])

\* the fraction digits as hundredths; the sampled strings carry at most two
FracOf(ds) ==
    IF Len(ds) = 0 THEN 0
    ELSE IF Len(ds) = 1 THEN 10 * DigitVal(ds[1])
    ELSE 10 * DigitVal(ds[1]) + DigitVal(ds[2])

DotAt(s) == IF \E i \in 1..Len(s) : s[i] = "."
            THEN CHOOSE i \in 1..Len(s) : s[i] = "." /\ \A j \in 1..(i - 1) : s[j] # "."
            ELSE 0

\* an unsigned decimal: digits, optionally a point and more digits
ParseUnsigned(s) ==
    LET d == DotAt(s)
        ip == IF d = 0 THEN s ELSE SubSeq(s, 1, d - 1)
        fp == IF d = 0 THEN <<>> ELSE SubSeq(s, d + 1, Len(s))
    IN IF AllDigits(ip) /\ AllDigits(fp) /\ Len(ip) + Len(fp) > 0
       THEN Num(100 * IntOf(ip) + FracOf(fp))
       ELSE Raised

\* float(s): ValueError (Raised) when s is not a number
ParseFloat(s) ==
    IF s = <<>> THEN Raised
    ELSE LET signed == s[1] \in {"+", "-"}
             body == IF signed THEN Tail(s) ELSE s
             neg == s[1] = "-"
         IN IF body = <<"N", "a", "N">> THEN NaN
            ELSE IF body = <<"I", "n", "f">> THEN (IF neg THEN NegInf ELSE Inf)
            ELSE LET u == ParseUnsigned(body)
                 IN IF u = Raised THEN Raised
                    ELSE IF neg THEN Num(0 - u.h) ELSE u

-----------------------------------------------------------------------------
(* f"{v:.1f}" *)

\* |h| hundredths rounded to tenths, ties to even (the sampled ties, .25 and
\* .75, are exact in binary, so the tie rule is the one that decides them)
RoundTenths(a) ==
    LET t == a \div 10
        r == a % 10
    IN IF r > 5 \/ (r = 5 /\ t % 2 = 1) THEN t + 1 ELSE t

Fmt1(v) ==
    CASE v.k = "nan" -> "nan"
      [] v.k = "inf" -> "inf"
      [] v.k = "ninf" -> "-inf"
      [] OTHER ->
            LET a == IF v.h < 0 THEN 0 - v.h ELSE v.h
                t == RoundTenths(a)
            IN (IF v.h < 0 THEN "-" ELSE "")
               \o ToString(t \div 10) \o "." \o ToString(t % 10)

-----------------------------------------------------------------------------
(* JSON values of the backend body *)

Absent == [t |-> "absent", v |-> <<>>]

Null == [t |-> "null", v |-> <<>>]

List(xs) == [t |-> "list", v |-> xs]

\* an exception raised while an expression over JSON values is evaluated
JRaised == [t |-> "raise", v |-> <<>>]

\* Python truthiness: a missing key (None), null and the empty list are falsy
Truthy(j) == j.t = "list" /\ j.v # <<>>

\* result[0].get("values", [None])[-1]
LastOfValues(entry) ==
    LET vs == entry.values
    IN CASE vs.t = "absent" -> Null
         [] vs.t = "null" -> JRaised
         [] vs.v = <<>> -> JRaised
         [] OTHER -> List(vs.v[Len(vs.v)])

\* variant: the time series is preferred to the instantaneous value
FirstSampleSeriesFirst(entry) ==
    IF Truthy(entry.values) THEN LastOfValues(entry) ELSE entry.value

\* val = result[0].get("value") or result[0].get("values", [None])[-1]
FirstSample(entry) ==
    IF Truthy(entry.value) THEN entry.value ELSE LastOfValues(entry)

\* float(val[1])
FloatOfSecond(val) ==
    IF val.t # "list" THEN Raised
    ELSE IF Len(val.v) < 2 THEN Raised
    ELSE ParseFloat(val.v[2])

-----------------------------------------------------------------------------
(* q: the body of the try block, then the except clause *)

qTry(reply) ==
    IF reply.kind \in {"conn_error", "timeout"} THEN Raised
    ELSE IF reply.kind = "http_error" THEN Raised
    ELSE IF reply.kind = "bad_json" THEN Raised
    ELSE LET data == reply.body
         IN IF data.status # <<"success">> THEN NaN
            ELSE IF data.data = <<>> THEN Raised
            ELSE LET result == data.data[1].result
                 IN IF result = <<>> THEN NaN
                    ELSE FloatOfSecond(FirstSample(result[1]))

\* variant: no except clause
qNoExcept(reply) == qTry(reply)

\* variant: the except clause catches the errors of the HTTP call only
qExceptRequestsOnly(reply) ==
    IF reply.kind \in {"conn_error", "timeout", "http_error"} THEN NaN
    ELSE qTry(reply)

q(reply) ==
    LET r == qTry(reply)
    IN IF r = Raised THEN NaN ELSE r

\* safe(v): every float passes; anything else becomes not-a-number
safe(v) == IF v.k \in {"num", "nan", "inf", "ninf"} THEN v ELSE NaN

-----------------------------------------------------------------------------
(* The queries and the configuration *)

cpu_query == "100 - (avg by (instance) (rate(node_cpu_seconds_total{mode=\"idle\"}[5m])) * 100)"

mem_query == "100 * (1 - (avg by (instance) (node_memory_MemAvailable_bytes) / avg by (instance) (node_memory_MemTotal_bytes)))"

disk_query == "100 - (avg by (instance) (node_filesystem_avail_bytes{fstype!~\"tmpfs|overlay\",mountpoint=\"/\"} / node_filesystem_size_bytes{fstype!~\"tmpfs|overlay\",mountpoint=\"/\"} * 100))"

\* os.getenv("PROM_URL", "http://localhost:9090"); env is <<>> when unset
PROM_URL == IF env = <<>> THEN "http://localhost:9090" ELSE env[1]

-----------------------------------------------------------------------------
(* Insight and the rules of insights_now.  The texts are the source's, with *)
(* its arrows and dashes written in ASCII (->, -, --).                       *)

Insight(title, severity, description, recommendations) ==
    [title |-> title, severity |-> severity, description |-> description,
     recommendations |-> recommendations]

\* variant: the high CPU threshold is 90
CpuInsightsHigh90(c) ==
    IF Ne(c, c)
    THEN <<Insight("No CPU metrics", "warning",
                   "Prometheus query returned no CPU data. Node exporter or scrape config may be missing.",
                   <<"Verify kube-prometheus-stack is installed and node-exporter is running.",
                     "Check Prometheus targets page for scrape errors.">>)>>
    ELSE IF Gt(c, 90)
    THEN <<Insight("High CPU usage (" \o Fmt1(c) \o "%)", "critical",
                   "Sustained CPU > 85% can cause throttling and latency.",
                   <<"Scale up EC2 instance (t3.medium -> t3.large) or add a node.",
                     "Enable HPA for busy workloads (target 60-70% CPU).">>)>>
    ELSE IF Lt(c, 20)
    THEN <<Insight("Low CPU headroom (" \o Fmt1(c) \o "%)", "info",
                   "CPU usage is consistently low--over-provisioning likely.",
                   <<"Consider downsizing to t3.small or t3.micro to save cost.",
                     "Consolidate low-traffic workloads.">>)>>
    ELSE <<>>

CpuInsights(c) ==
    IF Ne(c, c)
    THEN <<Insight("No CPU metrics", "warning",
                   "Prometheus query returned no CPU data. Node exporter or scrape config may be missing.",
                   <<"Verify kube-prometheus-stack is installed and node-exporter is running.",
                     "Check Prometheus targets page for scrape errors.">>)>>
    ELSE IF Gt(c, 85)
    THEN <<Insight("High CPU usage (" \o Fmt1(c) \o "%)", "critical",
                   "Sustained CPU > 85% can cause throttling and latency.",
                   <<"Scale up EC2 instance (t3.medium -> t3.large) or add a node.",
                     "Enable HPA for busy workloads (target 60-70% CPU).">>)>>
    ELSE IF Lt(c, 20)
    THEN <<Insight("Low CPU headroom (" \o Fmt1(c) \o "%)", "info",
                   "CPU usage is consistently low--over-provisioning likely.",
                   <<"Consider downsizing to t3.small or t3.micro to save cost.",
                     "Consolidate low-traffic workloads.">>)>>
    ELSE <<>>

\* variant: the memory thresholds are inclusive
MemInsightsInclusive(m) ==
    IF Ne(m, m)
    THEN <<Insight("No Memory metrics", "warning",
                   "Prometheus query returned no Memory data.",
                   <<"Confirm node-exporter and proper scrape configs.">>)>>
    ELSE IF ~Lt(m, 85)
    THEN <<Insight("High Memory usage (" \o Fmt1(m) \o "%)", "critical",
                   "Memory pressure increases OOM risk.",
                   <<"Increase instance memory (t3.medium->t3.large).",
                     "Tune pod requests/limits; enable VPA if appropriate.">>)>>
    ELSE IF ~Gt(m, 30)
    THEN <<Insight("Low Memory usage (" \o Fmt1(m) \o "%)", "info",
                   "Plenty of unused memory--potential cost optimization.",
                   <<"Downsize instance or pack more workloads.",
                     "Reduce pod memory limits if set too high.">>)>>
    ELSE <<>>

MemInsights(m) ==
    IF Ne(m, m)
    THEN <<Insight("No Memory metrics", "warning",
                   "Prometheus query returned no Memory data.",
                   <<"Confirm node-exporter and proper scrape configs.">>)>>
    ELSE IF Gt(m, 85)
    THEN <<Insight("High Memory usage (" \o Fmt1(m) \o "%)", "critical",
                   "Memory pressure increases OOM risk.",
                   <<"Increase instance memory (t3.medium->t3.large).",
                     "Tune pod requests/limits; enable VPA if appropriate.">>)>>
    ELSE IF Lt(m, 30)
    THEN <<Insight("Low Memory usage (" \o Fmt1(m) \o "%)", "info",
                   "Plenty of unused memory--potential cost optimization.",
                   <<"Downsize instance or pack more workloads.",
                     "Reduce pod memory limits if set too high.">>)>>
    ELSE <<>>

\* variant: no not-a-number check, the comparisons alone decide
DiskInsightsNoNaNCheck(d) ==
    IF Gt(d, 80)
    THEN <<Insight("Disk usage high (" \o Fmt1(d) \o "%)", "critical",
                   "Running low on disk can crash pods and databases.",
                   <<"Expand root volume (gp3) from 30GB to 50GB+, then grow FS.",
                     "Prune images and old logs; add retention policies.">>)>>
    ELSE IF Lt(d, 50)
    THEN <<Insight("Disk usage healthy (" \o Fmt1(d) \o "%)", "info",
                   "No immediate storage pressure.",
                   <<"Keep image pruning and log rotation in place.">>)>>
    ELSE <<>>

DiskInsights(d) ==
    IF Ne(d, d)
    THEN <<Insight("No Disk metrics", "warning",
                   "Prometheus query returned no Disk data for '/'.",
                   <<"Verify node-exporter mount points and filesystem metrics.">>)>>
    ELSE IF Gt(d, 80)
    THEN <<Insight("Disk usage high (" \o Fmt1(d) \o "%)", "critical",
                   "Running low on disk can crash pods and databases.",
                   <<"Expand root volume (gp3) from 30GB to 50GB+, then grow FS.",
                     "Prune images and old logs; add retention policies.">>)>>
    ELSE IF Lt(d, 50)
    THEN <<Insight("Disk usage healthy (" \o Fmt1(d) \o "%)", "info",
                   "No immediate storage pressure.",
                   <<"Keep image pruning and log rotation in place.">>)>>
    ELSE <<>>

cost_hint ==
    Insight("Cost heuristic", "info",
            "Approximate instance rightsizing suggestion based on CPU/Memory.",
            <<"If CPU<20% and Mem<30% for 24h: consider t3.small (~50% cheaper).",
              "If CPU>85% or Mem>85% often: consider t3.large or add a node.">>)

\* variant: the cost hint is appended only when CPU and memory are known
BuildInsightsCostIfKnown(c, m, d) ==
    CpuInsights(c) \o MemInsights(m) \o DiskInsights(d)
        \o (IF Ne(c, c) \/ Ne(m, m) THEN <<>> ELSE <<cost_hint>>)

\* variant: the memory rules run before the CPU rules
BuildInsightsMemFirst(c, m, d) ==
    MemInsights(m) \o CpuInsights(c) \o DiskInsights(d) \o <<cost_hint>>

\* the list built between `insights = []` and `insights.append(cost_hint)`
BuildInsights(c, m, d) ==
    CpuInsights(c) \o MemInsights(m) \o DiskInsights(d) \o <<cost_hint>>

InsightResponse(c, m, d) ==
    [status |-> "ok",
     insights |-> BuildInsights(c, m, d),
     raw |-> [cpu_pct |-> c, mem_pct |-> m, disk_pct |-> d]]

-----------------------------------------------------------------------------
(* What the backend may answer to one query *)

SeqsUpTo(S, n) == UNION {[1..k -> S] : k \in 0..n}

\* a timestamp
TS == <<"1">>

\* the numeric strings the backend is sampled with: the thresholds, their
\* neighbours, the ties and the carry of the rounding, the special floats,
\* and strings that are no number
SampleStrs ==
    { <<"1", "0">>, <<"1", "9", ".", "7", "5">>, <<"2", "0">>,
      <<"2", "9", ".", "7", "5">>, <<"3", "0">>,
      <<"4", "9", ".", "7", "5">>, <<"5", "0">>, <<"6", "0">>,
      <<"8", "0">>, <<"8", "0", ".", "2", "5">>,
      <<"8", "5">>, <<"8", "5", ".", "2", "5">>, <<"9", "0">>,
      <<"9", "9", ".", "9", "6">>, <<"-", "0", ".", "0", "4">>,
      <<"N", "a", "N">>, <<"+", "I", "n", "f">>, <<"-", "I", "n", "f">>,
      <<"a", "b", "c">>, <<>> }

\* the strings the time series are sampled with
SeriesStrs == { <<"6", "0">>, <<"a", "b", "c">> }

ValueFields ==
    {Absent, Null, List(<<>>), List(<<TS>>)}
        \cup {List(<<TS, s>>) : s \in SampleStrs}

ValuesFields ==
    {Absent, Null}
        \cup {List(xs) : xs \in SeqsUpTo({<<TS, s>> : s \in SeriesStrs}, MaxSeries)}

\* the value fields that are combined with every values field
MixedValueFields ==
    {Absent, Null, List(<<>>), List(<<TS>>),
     List(<<TS, <<"9", "0">>>>), List(<<TS, <<"a", "b", "c">>>>)}

\* a first entry: any value field alone, or a mixed one with a values field
Entries ==
    [value : ValueFields, values : {Absent}]
        \cup [value : MixedValueFields, values : ValuesFields]

\* the entries after the first one
OtherEntries == {[value |-> List(<<TS, <<"1", "0">>>>), values |-> Absent]}

Results ==
    {<<>>} \cup {<<e>> \o rest : e \in Entries,
                               rest \in SeqsUpTo(OtherEntries, MaxResults - 1)}

Bodies ==
    {[status |-> <<"success">>, data |-> <<[result |-> r]>>] : r \in Results}
        \cup {[status |-> <<"success">>, data |-> <<>>],
              [status |-> <<"error">>, data |-> <<>>],
              [status |-> <<>>, data |-> <<[result |-> <<>>]>>]}

NoBody == [status |-> <<>>, data |-> <<>>]

Replies ==
    {[kind |-> k, body |-> NoBody] :
        k \in {"conn_error", "timeout", "http_error", "bad_json"}}
        \cup {[kind |-> "ok", body |-> b] : b \in Bodies}

-----------------------------------------------------------------------------
(* The service *)

\* a local of the handler that is not bound yet
Unset == [k |-> "unset", h |-> 0]

Init ==
    /\ env \in {<<>>, <<"http://prometheus:9090">>}
    /\ pc = "idle"
    /\ route = "none"
    /\ sent = <<>>
    /\ cpu = Unset
    /\ mem = Unset
    /\ disk = Unset
    /\ last = <<>>
    /\ response = <<>>

\* a request arrives and is routed to its handler
Request ==
    /\ pc = "idle"
    /\ \E r \in {"/healthz", "/insights/now"} :
          /\ route' = r
          /\ pc' = IF r = "/healthz" THEN "healthz" ELSE "fetch_cpu"
    /\ UNCHANGED <<env, sent, cpu, mem, disk, last, response>>

\* variant: the health check reports the URL under another key
healthzUrlKey ==
    /\ pc = "healthz"
    /\ response' = <<[code |-> 200, body |-> [ok |-> TRUE, url |-> PROM_URL]]>>
    /\ pc' = "done"
    /\ UNCHANGED <<env, route, sent, cpu, mem, disk, last>>

healthz ==
    /\ pc = "healthz"
    /\ response' = <<[code |-> 200, body |-> [ok |-> TRUE, prom |-> PROM_URL]]>>
    /\ pc' = "done"
    /\ UNCHANGED <<env, route, sent, cpu, mem, disk, last>>

\* an exception that leaves the handler ends the request with a 500
ServerError == <<[code |-> 500, body |-> [detail |-> "Internal Server Error"]]>>

\* variant: a fetch that yields not-a-number is sent a second time
CallWithRetry(query, reply) ==
    /\ sent' = (IF q(reply) = NaN THEN sent \o <<query, query>>
                ELSE Append(sent, query))
    /\ last' = <<[query |-> query, reply |-> reply, result |-> q(reply)]>>

\* the call q(query) against a backend that answers reply: one GET is sent
Call(query, reply) ==
    /\ sent' = Append(sent, query)
    /\ last' = <<[query |-> query, reply |-> reply, result |-> q(reply)]>>

\* cpu = safe(q(cpu_query))
FetchCpu ==
    /\ pc = "fetch_cpu"
    /\ \E reply \in Replies :
          /\ Call(cpu_query, reply)
          /\ IF q(reply) = Raised
             THEN pc' = "done" /\ response' = ServerError /\ cpu' = cpu
             ELSE pc' = "fetch_mem" /\ cpu' = safe(q(reply)) /\ response' = response
    /\ UNCHANGED <<env, route, mem, disk>>

\* mem = safe(q(mem_query))
FetchMem ==
    /\ pc = "fetch_mem"
    /\ \E reply \in Replies :
          /\ Call(mem_query, reply)
          /\ IF q(reply) = Raised
             THEN pc' = "done" /\ response' = ServerError /\ mem' = mem
             ELSE pc' = "fetch_disk" /\ mem' = safe(q(reply)) /\ response' = response
    /\ UNCHANGED <<env, route, cpu, disk>>

\* disk = safe(q(disk_query))
FetchDisk ==
    /\ pc = "fetch_disk"
    /\ \E reply \in Replies :
          /\ Call(disk_query, reply)
          /\ IF q(reply) = Raised
             THEN pc' = "done" /\ response' = ServerError /\ disk' = disk
             ELSE pc' = "rules" /\ disk' = safe(q(reply)) /\ response' = response
    /\ UNCHANGED <<env, route, cpu, mem>>

\* the rules, the cost hint and the return of insights_now
Respond ==
    /\ pc = "rules"
    /\ response' = <<[code |-> 200, body |-> InsightResponse(cpu, mem, disk)]>>
    /\ pc' = "done"
    /\ last' = <<>>
    /\ UNCHANGED <<env, route, sent, cpu, mem, disk>>

\* the response is delivered; nothing of the request outlives it
Finish ==
    /\ pc = "done"
    /\ pc' = "idle"
    /\ route' = "none"
    /\ sent' = <<>>
    /\ cpu' = Unset
    /\ mem' = Unset
    /\ disk' = Unset
    /\ last' = <<>>
    /\ response' = <<>>
    /\ UNCHANGED env

Next ==
    \/ Request
    \/ healthz
    \/ FetchCpu
    \/ FetchMem
    \/ FetchDisk
    \/ Respond
    \/ Finish

Spec == Init /\ [][Next]_vars

-----------------------------------------------------------------------------
(* Vocabulary of the properties *)

Metrics == {"cpu", "mem", "disk"}

Rank == [cpu |-> 1, mem |-> 2, disk |-> 3]

HighOf == [cpu |-> 85, mem |-> 85, disk |-> 80]

LowOf == [cpu |-> 20, mem |-> 30, disk |-> 50]

MissingTitle ==
    [cpu |-> "No CPU metrics", mem |-> "No Memory metrics", disk |-> "No Disk metrics"]

HighTitle(m, v) ==
    CASE m = "cpu" -> "High CPU usage (" \o Fmt1(v) \o "%)"
      [] m = "mem" -> "High Memory usage (" \o Fmt1(v) \o "%)"
      [] m = "disk" -> "Disk usage high (" \o Fmt1(v) \o "%)"

LowTitle(m, v) ==
    CASE m = "cpu" -> "Low CPU headroom (" \o Fmt1(v) \o "%)"
      [] m = "mem" -> "Low Memory usage (" \o Fmt1(v) \o "%)"
      [] m = "disk" -> "Disk usage healthy (" \o Fmt1(v) \o "%)"

\* every float a fetch can bind
Floats == {NaN, Inf, NegInf} \cup {Num(h) : h \in -100..10100}

\* the titles an insight about metric m can carry
TitlesOf ==
    [m \in Metrics |->
        {MissingTitle[m]} \cup {HighTitle(m, v) : v \in Floats}
                          \cup {LowTitle(m, v) : v \in Floats}]

IsNaN(v) == v.k = "nan"

Above(v, n) == v.k = "inf" \/ (v.k = "num" /\ v.h > 100 * n)

Below(v, n) == v.k = "ninf" \/ (v.k = "num" /\ v.h < 100 * n)

\* GET /insights/now has been answered by the handler's return
Answered ==
    pc = "done" /\ route = "/insights/now" /\ response # <<>> /\ response[1].code = 200

Ins == response[1].body.insights

RawOf(m) ==
    CASE m = "cpu" -> response[1].body.raw.cpu_pct
      [] m = "mem" -> response[1].body.raw.mem_pct
      [] m = "disk" -> response[1].body.raw.disk_pct

\* the positions of the insights about metric m
About(m) == {i \in 1..Len(Ins) : Ins[i].title \in TitlesOf[m]}

-----------------------------------------------------------------------------
(* Properties *)

\* C1: for each metric and every non-NaN value outside its band the response
\* holds exactly one insight about that metric: the critical high-usage one,
\* its title embedding the value to one decimal, when the value is strictly
\* above the high threshold, and the info low/healthy one when it is strictly
\* below the low threshold; never the other one.
C1_OneInsightOutsideBand ==
    Answered =>
        \A m \in Metrics :
            LET v == RawOf(m)
            IN /\ Above(v, HighOf[m]) =>
                     \E i \in 1..Len(Ins) :
                        /\ About(m) = {i}
                        /\ Ins[i].severity = "critical"
                        /\ Ins[i].title = HighTitle(m, v)
               /\ Below(v, LowOf[m]) =>
                     \E i \in 1..Len(Ins) :
                        /\ About(m) = {i}
                        /\ Ins[i].severity = "info"
                        /\ Ins[i].title = LowTitle(m, v)

C1_Witness ==
    /\ Answered
    /\ RawOf("cpu") = Num(9996)
    /\ RawOf("mem") = Num(8525)
    /\ RawOf("disk") = Num(4975)
    /\ Ins[1].title = "High CPU usage (100.0%)"
    /\ Ins[2].title = "High Memory usage (85.2%)"
    /\ Ins[3].title = "Disk usage healthy (49.8%)"

\* C2: a value inside the closed band of its metric (CPU [20, 85], memory
\* [30, 85], disk [50, 80]), the two boundary values included, yields no
\* insight about that metric.
C2_NoInsightInsideBand ==
    Answered =>
        \A m \in Metrics :
            LET v == RawOf(m)
            IN (v.k = "num" /\ v.h >= 100 * LowOf[m] /\ v.h <= 100 * HighOf[m])
                  => About(m) = {}

C2_Witness ==
    /\ Answered
    /\ RawOf("cpu") = Num(8500)
    /\ RawOf("mem") = Num(3000)
    /\ RawOf("disk") = Num(8000)
    /\ Len(Ins) = 1

\* C3: a not-a-number value yields exactly one warning "no metrics" insight
\* naming its metric and no critical or info insight about it, whatever the
\* other two values are; three not-a-number values give three warnings and
\* the cost insight, four insights in all.
C3_NaNGivesOneWarning ==
    Answered =>
        /\ \A m \in Metrics :
              IsNaN(RawOf(m)) =>
                 \E i \in 1..Len(Ins) :
                    /\ About(m) = {i}
                    /\ Ins[i].severity = "warning"
                    /\ Ins[i].title = MissingTitle[m]
        /\ (\A m \in Metrics : IsNaN(RawOf(m))) =>
              /\ Len(Ins) = 4
              /\ \A i \in 1..3 : Ins[i].severity = "warning"
              /\ Ins[4].title = "Cost heuristic"

C3_Witness ==
    /\ Answered
    /\ IsNaN(RawOf("cpu"))
    /\ RawOf("mem") = Num(9000)
    /\ IsNaN(RawOf("disk"))
    /\ Len(Ins) = 4

\* C4: every response holds the cost insight exactly once, with the same
\* title, severity, description and two recommendations whatever the values.
C4_CostInsightOnce ==
    Answered =>
        \E i \in 1..Len(Ins) :
            /\ {j \in 1..Len(Ins) : Ins[j].title = "Cost heuristic"} = {i}
            /\ Ins[i].severity = "info"
            /\ Ins[i].description
                  = "Approximate instance rightsizing suggestion based on CPU/Memory."
            /\ Ins[i].recommendations
                  = <<"If CPU<20% and Mem<30% for 24h: consider t3.small (~50% cheaper).",
                      "If CPU>85% or Mem>85% often: consider t3.large or add a node.">>

C4_Witness ==
    /\ Answered
    /\ \A m \in Metrics : IsNaN(RawOf(m))
    /\ Ins[4] = cost_hint

\* the most recent call of q, while the handler is fetching
Called == last # <<>>

\* the first result entry of a successful, non-empty backend answer
HasFirstEntry(reply) ==
    /\ reply.kind = "ok"
    /\ reply.body.status = <<"success">>
    /\ reply.body.data # <<>>
    /\ reply.body.data[1].result # <<>>

FirstEntry(reply) == reply.body.data[1].result[1]

\* the float read from the second element of a JSON list, not-a-number when
\* there is no such element or it is no number
SecondAsFloat(j) ==
    IF j.t = "list" /\ Len(j.v) >= 2
    THEN (IF ParseFloat(j.v[2]) = Raised THEN NaN ELSE ParseFloat(j.v[2]))
    ELSE NaN

\* the last item of a `values` list, Null when there is none
LastItem(j) ==
    IF j.t = "list" /\ j.v # <<>> THEN List(j.v[Len(j.v)]) ELSE Null

NotANumber == {<<"a", "b", "c">>, <<>>}

\* C5: q never raises; it returns not-a-number for an HTTP error status, a
\* connection failure or timeout, a body that is not JSON, a status other
\* than "success", an empty result list, a first entry with neither `value`
\* nor `values`, and a value whose second element is no number.
C5_FetcherNeverRaises ==
    Called =>
        LET reply == last[1].reply
            result == last[1].result
        IN /\ result # Raised
           /\ result.k \in {"num", "nan", "inf", "ninf"}
           /\ reply.kind \in {"http_error", "conn_error", "timeout", "bad_json"}
                 => IsNaN(result)
           /\ (reply.kind = "ok" /\ reply.body.status # <<"success">>)
                 => IsNaN(result)
           /\ (reply.kind = "ok" /\ reply.body.status = <<"success">>
                 /\ reply.body.data # <<>> /\ reply.body.data[1].result = <<>>)
                 => IsNaN(result)
           /\ (HasFirstEntry(reply) /\ FirstEntry(reply).value = Absent
                 /\ FirstEntry(reply).values = Absent)
                 => IsNaN(result)
           /\ (HasFirstEntry(reply) /\ FirstEntry(reply).value.t = "list"
                 /\ Len(FirstEntry(reply).value.v) = 2
                 /\ FirstEntry(reply).value.v[2] \in NotANumber)
                 => IsNaN(result)

C5_Witness ==
    /\ Called
    /\ HasFirstEntry(last[1].reply)
    /\ FirstEntry(last[1].reply).value = Absent
    /\ FirstEntry(last[1].reply).values = Absent
    /\ IsNaN(last[1].result)
    /\ pc = "fetch_mem"
    /\ IsNaN(cpu)

\* C6: GET /insights/now has no error outcome: whatever the three fetches
\* met, the handler returns an InsightResponse with status "ok" (200), and a
\* metric that is unavailable shows as a warning insight of that payload.
C6_AlwaysOk ==
    (pc = "done" /\ route = "/insights/now") =>
        /\ response # <<>>
        /\ response[1].code = 200
        /\ response[1].body.status = "ok"
        /\ \A m \in Metrics :
              IsNaN(RawOf(m)) =>
                 \E i \in 1..Len(Ins) :
                    Ins[i].severity = "warning" /\ Ins[i].title = MissingTitle[m]

C6_Witness ==
    /\ pc = "done"
    /\ route = "/insights/now"
    /\ response[1].code = 200
    /\ response[1].body.status = "ok"
    /\ IsNaN(RawOf("cpu"))
    /\ IsNaN(RawOf("mem"))
    /\ RawOf("disk") = Num(6000)
    /\ Len(Ins) = 3

\* C7 as stated: GET /healthz answers {ok: true, backend_url: <the configured
\* backend URL>} and calls the backend not at all.
C7_HealthzBackendUrl ==
    (pc = "done" /\ route = "/healthz") =>
        /\ response # <<>>
        /\ DOMAIN response[1].body = {"ok", "backend_url"}
        /\ response[1].body.ok = TRUE
        /\ response[1].body.backend_url = PROM_URL
        /\ sent = <<>>

\* C7, amended: GET /healthz answers {ok: true, prom: <the configured backend
\* URL>}: `ok` is true, the field named `prom` carries the configured base URL
\* (the default http://localhost:9090 when the environment sets none), and the
\* handler calls the backend not at all.
C7_HealthzProm ==
    (pc = "done" /\ route = "/healthz") =>
        /\ response # <<>>
        /\ response[1].code = 200
        /\ DOMAIN response[1].body = {"ok", "prom"}
        /\ response[1].body.ok = TRUE
        /\ response[1].body.prom
              = (IF env = <<>> THEN "http://localhost:9090" ELSE env[1])
        /\ sent = <<>>
        /\ last = <<>>

C7_Witness ==
    /\ pc = "done"
    /\ route = "/healthz"
    /\ env = <<"http://prometheus:9090">>
    /\ response[1].body.prom = "http://prometheus:9090"

\* C8 as stated: q looks only at the first result entry; when the entry has a
\* `value` field (a list, be it empty) q returns the float of the second
\* element of `value` whatever `values` holds, and only when `value` is absent
\* the float of the second element of the last item of `values`.
C8_ValueFieldWins ==
    (Called /\ HasFirstEntry(last[1].reply)) =>
        LET e == FirstEntry(last[1].reply)
        IN last[1].result
              = (IF e.value.t = "list" THEN SecondAsFloat(e.value)
                 ELSE SecondAsFloat(LastItem(e.values)))

\* C8, amended: q looks only at the first result entry; when the entry has a
\* non-empty `value` list q returns the float of the second element of
\* `value` (not-a-number when there is none or it is no number) whatever
\* `values` holds; when `value` is absent, null or empty q returns the float
\* of the second element of the last item of `values` (not-a-number when
\* there is none or it is no number).
C8_TruthyValueWins ==
    (Called /\ HasFirstEntry(last[1].reply)) =>
        LET e == FirstEntry(last[1].reply)
        IN last[1].result
              = (IF e.value.t = "list" /\ e.value.v # <<>>
                 THEN SecondAsFloat(e.value)
                 ELSE SecondAsFloat(LastItem(e.values)))

C8_Witness ==
    /\ Called
    /\ HasFirstEntry(last[1].reply)
    /\ Len(last[1].reply.body.data[1].result) = 2
    /\ FirstEntry(last[1].reply).value = List(<<TS, <<"9", "0">>>>)
    /\ FirstEntry(last[1].reply).values = List(<<<<TS, <<"6", "0">>>>>>)
    /\ last[1].result = Num(9000)

\* C9: the insights list holds at most one insight per metric, in the order
\* CPU, memory, disk, and then the cost insight as its last element, so it is
\* 1 to 4 long; cpu=90, mem=10, disk=60 give exactly the critical CPU insight
\* with "90.0%", the info low-memory insight with "10.0%" and the cost insight.
C9_OrderAndLength ==
    Answered =>
        /\ Len(Ins) \in 1..4
        /\ Ins[Len(Ins)].title = "Cost heuristic"
        /\ \A m \in Metrics : Cardinality(About(m)) <= 1
        /\ \A i \in 1..(Len(Ins) - 1) : \E m \in Metrics : i \in About(m)
        /\ \A m1, m2 \in Metrics :
              \A i \in About(m1), j \in About(m2) :
                 Rank[m1] < Rank[m2] => i < j
        /\ (RawOf("cpu") = Num(9000) /\ RawOf("mem") = Num(1000)
               /\ RawOf("disk") = Num(6000)) =>
              /\ Len(Ins) = 3
              /\ Ins[1].title = "High CPU usage (90.0%)"
              /\ Ins[1].severity = "critical"
              /\ Ins[2].title = "Low Memory usage (10.0%)"
              /\ Ins[2].severity = "info"
              /\ Ins[3].title = "Cost heuristic"
              /\ About("disk") = {}

C9_Witness ==
    /\ Answered
    /\ RawOf("cpu") = Num(9000)
    /\ RawOf("mem") = Num(1000)
    /\ RawOf("disk") = Num(6000)
    /\ Len(Ins) = 3

\* C10: a request to /insights/now sends exactly three backend queries, the
\* CPU, the memory and the disk query, each once, and the response is built
\* only after all three have returned a value or not-a-number: a failed
\* fetch neither skips a later one nor is repeated.
C10_ThreeFetchesThenResponse ==
    LET queries == <<cpu_query, mem_query, disk_query>>
    IN /\ Len(sent) <= 3
       /\ sent = SubSeq(queries, 1, Len(sent))
       /\ (route = "/insights/now" /\ (pc = "rules" \/ response # <<>>)) =>
             /\ sent = queries
             /\ cpu # Unset /\ mem # Unset /\ disk # Unset
       /\ (route = "/insights/now" /\ pc = "fetch_mem") => Len(sent) = 1
       /\ (route = "/insights/now" /\ pc = "fetch_disk") => Len(sent) = 2

C10_Witness ==
    /\ pc = "done"
    /\ route = "/insights/now"
    /\ response # <<>>
    /\ IsNaN(cpu)
    /\ IsNaN(mem)
    /\ disk = Num(6000)
    /\ sent = <<cpu_query, mem_query, disk_query>>

====
